---- MODULE Spec2Model ----
(***************************************************************************)
(* OptionPilot: the strategy metrics calculator (strategy_calculator.py),  *)
(* the payoff-at-expiration function (payoff_diagram.py) and the entity    *)
(* validation of models.py.                                                *)
(*                                                                         *)
(* Number representation.  The code converts every float with             *)
(* Decimal(str(x)) and computes in exact decimal arithmetic, so every      *)
(* quantity is modelled as an exact integer count of a fixed unit:         *)
(*   - money (bid, ask, premiums, profits, losses, payoffs): mils,         *)
(*     1 mil = 0.001 dollar, so that sub-cent quotes such as 8.555 exist;  *)
(*   - per-share prices (strike, stock price, breakeven): share units,     *)
(*     1 share unit = 0.00001 dollar = 1/100 mil, so that one share unit   *)
(*     times the contract size of 100 shares is exactly one mil;           *)
(*   - return_on_margin: hundredths of a percent.                          *)
(* quantize(Decimal('0.01')) rounds to a multiple of Cent mils (or of      *)
(* SharesCent share units).  float(d) of a decimal with at most 5          *)
(* fractional digits and fewer than 16 significant digits is the nearest   *)
(* double; that map is injective and order preserving on such values, so   *)
(* a float result is identified with the decimal it was made from.         *)
(***************************************************************************)
EXTENDS Integers, Sequences, FiniteSets, TLC

\* ---------------------------------------------------------------- units
\* Decimal('0.01') in mils
Cent == 10
Dollar == 100 * Cent
\* Decimal('100'): shares per contract
ContractSize == 100
\* share units per mil
ShareUnitsPerMil == ContractSize
\* Decimal('0.01') in share units
SharesCent == Cent * ShareUnitsPerMil
\* Decimal('99999'), the "unlimited" sentinel, in dollars and in mils
Sentinel == 99999
SentinelMils == Sentinel * Dollar

Abs(n) == IF n < 0 THEN -n ELSE n

\* ------------------------------------------------------------- rounding
\* n/d (d > 0) rounded to an integer, ties away from zero:
\* decimal.ROUND_HALF_UP
RoundHalfUp(n, d) ==
    LET q == (2 * Abs(n) + d) \div (2 * d)
    IN  IF n < 0 THEN -q ELSE q

\* n/d (d > 0) rounded to an integer, ties to the even neighbour:
\* decimal.ROUND_HALF_EVEN, the rounding of the default context
RoundHalfEven(n, d) ==
    LET a == Abs(n)
        q == a \div d
        r == a % d
        up == (2 * r > d) \/ (2 * r = d /\ q % 2 = 1)
        m == IF up THEN q + 1 ELSE q
    IN  IF n < 0 THEN -m ELSE m

\* x.quantize(Decimal('0.01'), rounding=ROUND_HALF_UP) for x in mils
QuantizeHalfUp(x) == RoundHalfUp(x, Cent) * Cent

\* ------------------------------------------------------- input domains
MaxQuantity == 2
MaxLegs == 3

Actions == {"buy", "sell"}
OptionTypes == {"call", "put"}
\* strikes in share units: 145.00, 150.005, 1200.00
Strikes == {14500000, 15000500, 120000000}
\* <<bid, ask>> in mils: 5.20/5.40, 8.555/8.777, 8.765/8.765, 0.004/0.005
Quotes == {<<5200, 5400>>, <<8555, 8777>>, <<8765, 8765>>, <<4, 5>>}
\* stock prices in share units: 100.00, 145.00, 147.505, 160.00, 1300.00
StockPrices == {10000000, 14500000, 14750500, 16000000, 130000000}

\* ------------------------------------------------------ float comparison
\* strike, bid and ask are Python floats.  NaN is a float; it is kept as a
\* number no price takes, and every comparison with it is false.
NaN == -(2^30)
FloatLT(a, b) == a # NaN /\ b # NaN /\ a < b
FloatLE(a, b) == a # NaN /\ b # NaN /\ a <= b

\* -------------------------------------------------------------- models
\* OptionContract.__post_init__: TRUE iff construction raises no ValueError
OptionContract_post_init(c) ==
    /\ ~FloatLE(c.strike, 0)
    /\ c.option_type \in {"call", "put"}
    /\ ~FloatLT(c.bid, 0)
    /\ ~FloatLT(c.ask, c.bid)

\* OptionLeg.__post_init__
OptionLeg_post_init(l) ==
    /\ l.action \in {"buy", "sell"}
    /\ ~(l.quantity <= 0)

\* Strategy.__post_init__
Strategy_post_init(legs) ==
    /\ ~(legs = <<>>)
    /\ ~(Len(legs) > 2)

OptionContract ==
    {c \in [strike : Strikes, option_type : OptionTypes,
            bid : {q[1] : q \in Quotes}, ask : {q[2] : q \in Quotes}] :
        /\ <<c.bid, c.ask>> \in Quotes
        /\ OptionContract_post_init(c)}

OptionLeg ==
    {l \in [action : Actions, contract : OptionContract,
            quantity : 1..MaxQuantity] : OptionLeg_post_init(l)}

Strategy ==
    {legs \in (UNION {[1..n -> OptionLeg] : n \in 1..2}) :
        Strategy_post_init(legs)}

\* strategies over strikes of up to five decimals: 145.00, 150.00001
FineStrikes == {14500000, 15000001}
FineQuotes == {<<5200, 5400>>, <<8555, 8777>>}

FineOptionContract ==
    {c \in [strike : FineStrikes, option_type : OptionTypes,
            bid : {q[1] : q \in FineQuotes}, ask : {q[2] : q \in FineQuotes}] :
        /\ <<c.bid, c.ask>> \in FineQuotes
        /\ OptionContract_post_init(c)}

FineOptionLeg ==
    {l \in [action : Actions, contract : FineOptionContract,
            quantity : 1..MaxQuantity] : OptionLeg_post_init(l)}

FineStrategy ==
    {legs \in (UNION {[1..n -> FineOptionLeg] : n \in 1..2}) :
        Strategy_post_init(legs)}

\* -------------------------------------------------- strategy_calculator
RECURSIVE SumPremiums(_)
SumPremiums(legs) ==
    IF legs = <<>> THEN 0
    ELSE LET leg == legs[Len(legs)]
             price == IF leg.action = "sell" THEN leg.contract.bid
                                             ELSE leg.contract.ask
             premium == price * leg.quantity
         IN  SumPremiums(SubSeq(legs, 1, Len(legs) - 1))
               + (IF leg.action = "sell" THEN premium ELSE -premium)

\* mutant: each leg's premium is rounded before it is accumulated
RECURSIVE SumRoundedPremiums(_)
SumRoundedPremiums(legs) ==
    IF legs = <<>> THEN 0
    ELSE LET leg == legs[Len(legs)]
             price == IF leg.action = "sell" THEN leg.contract.bid
                                             ELSE leg.contract.ask
             premium == QuantizeHalfUp(price) * leg.quantity
         IN  SumRoundedPremiums(SubSeq(legs, 1, Len(legs) - 1))
               + (IF leg.action = "sell" THEN premium ELSE -premium)

_calculate_net_premium_rounds_each_leg(legs) == SumRoundedPremiums(legs)

_calculate_net_premium(legs) == QuantizeHalfUp(SumPremiums(legs))

\* mutant: the strikes are taken in leg order
SortedStrikes_leg_order(legs) ==
    <<legs[1].contract.strike, legs[2].contract.strike>>

\* sorted([strike of leg for leg in legs]) for two legs
SortedStrikes(legs) ==
    LET a == legs[1].contract.strike
        b == legs[2].contract.strike
    IN  IF a <= b THEN <<a, b>> ELSE <<b, a>>

\* x * Decimal('100') for a per-share amount x >= 0 in share units; the
\* result is in mils (whole and fractional mils of x are multiplied apart
\* to stay within 32 bits)
TimesContractSize(x) ==
    (x \div ShareUnitsPerMil) * ContractSize
      + ((x % ShareUnitsPerMil) * ContractSize) \div ShareUnitsPerMil

\* (strikes[1] - strikes[0]) * Decimal('100'), in mils
SpreadValue(legs) ==
    LET strikes == SortedStrikes(legs)
    IN  TimesContractSize(strikes[2] - strikes[1])

\* mutant: the debit is added to the spread value instead of subtracted
_calculate_max_profit_adds_debit(legs, net_premium) ==
    IF Len(legs) = 1
    THEN LET leg == legs[1]
         IN  IF leg.action = "buy" /\ leg.contract.option_type = "call"
             THEN SentinelMils
             ELSE IF leg.action = "sell" THEN net_premium
                                         ELSE Abs(net_premium)
    ELSE IF net_premium >= 0 THEN net_premium
                             ELSE SpreadValue(legs) - net_premium

_calculate_max_profit(legs, net_premium) ==
    IF Len(legs) = 1
    THEN LET leg == legs[1]
         IN  IF leg.action = "buy" /\ leg.contract.option_type = "call"
             THEN SentinelMils
             ELSE IF leg.action = "sell" THEN net_premium
                                         ELSE Abs(net_premium)
    ELSE IF net_premium >= 0 THEN net_premium
                             ELSE SpreadValue(legs) + net_premium

\* mutant: a single sold option loses at most the premium
_calculate_max_loss_bounded_short(legs, net_premium) ==
    IF Len(legs) = 1
    THEN Abs(net_premium)
    ELSE IF net_premium >= 0 THEN SpreadValue(legs) - net_premium
                             ELSE Abs(net_premium)

_calculate_max_loss(legs, net_premium) ==
    IF Len(legs) = 1
    THEN LET leg == legs[1]
         IN  IF leg.action = "buy" THEN Abs(net_premium) ELSE SentinelMils
    ELSE IF net_premium >= 0 THEN SpreadValue(legs) - net_premium
                             ELSE Abs(net_premium)

\* mutant: the single-leg premium is divided by 100 as in the spread case
_calculate_breakeven_points_per_share(legs, net_premium) ==
    LET premium_per_share == (net_premium * ShareUnitsPerMil) \div ContractSize
    IN  IF Len(legs) = 1
        THEN LET strike == legs[1].contract.strike
                 breakeven == IF legs[1].contract.option_type = "call"
                              THEN strike + Abs(premium_per_share)
                              ELSE strike - Abs(premium_per_share)
             IN  <<RoundHalfUp(breakeven, SharesCent) * SharesCent>>
        ELSE LET strikes == SortedStrikes(legs)
                 option_types == {legs[i].contract.option_type : i \in 1..2}
                 breakeven == IF "call" \in option_types
                              THEN strikes[1] + premium_per_share
                              ELSE strikes[2] - premium_per_share
             IN  <<RoundHalfUp(breakeven, SharesCent) * SharesCent>>

\* mutant: the spread counts as a call spread only if both legs are calls
_calculate_breakeven_points_all_calls(legs, net_premium) ==
    IF Len(legs) = 1
    THEN LET leg == legs[1]
             strike == leg.contract.strike
             premium_amount == Abs(net_premium) * ShareUnitsPerMil
             breakeven == IF leg.contract.option_type = "call"
                          THEN strike + premium_amount
                          ELSE strike - premium_amount
         IN  <<RoundHalfUp(breakeven, SharesCent) * SharesCent>>
    ELSE LET strikes == SortedStrikes(legs)
             option_types == {legs[i].contract.option_type : i \in 1..2}
             premium_per_share == (net_premium * ShareUnitsPerMil) \div ContractSize
             breakeven == IF option_types = {"call"}
                          THEN strikes[1] + premium_per_share
                          ELSE strikes[2] - premium_per_share
         IN  <<RoundHalfUp(breakeven, SharesCent) * SharesCent>>

\* the result is a list of one price, in share units
_calculate_breakeven_points(legs, net_premium) ==
    IF Len(legs) = 1
    THEN LET leg == legs[1]
             strike == leg.contract.strike
             premium_amount == Abs(net_premium) * ShareUnitsPerMil
             breakeven == IF leg.contract.option_type = "call"
                          THEN strike + premium_amount
                          ELSE strike - premium_amount
         IN  <<RoundHalfUp(breakeven, SharesCent) * SharesCent>>
    ELSE LET strikes == SortedStrikes(legs)
             lower_strike == strikes[1]
             upper_strike == strikes[2]
             option_types == {legs[i].contract.option_type : i \in 1..2}
             \* net_premium / Decimal('100'): n mils / 100 = n share units
             premium_per_share == (net_premium * ShareUnitsPerMil) \div ContractSize
             breakeven == IF "call" \in option_types
                          THEN lower_strike + premium_per_share
                          ELSE upper_strike - premium_per_share
         IN  <<RoundHalfUp(breakeven, SharesCent) * SharesCent>>

\* mutant: a net premium of exactly 0 is treated as a debit
_calculate_margin_requirement_strict(max_loss, net_premium) ==
    IF net_premium > 0 THEN max_loss ELSE Abs(net_premium)

_calculate_margin_requirement(max_loss, net_premium) ==
    IF net_premium >= 0 THEN max_loss ELSE Abs(net_premium)

\* ((n / d) * Decimal('100')).quantize(Decimal('0.01'), ROUND_HALF_UP) for
\* d > 0, in hundredths of a percent: n * 10^4 / d by long division, so that
\* no intermediate product leaves the 32-bit range.  The 28-digit Decimal
\* quotient differs from the exact one by less than 10^-20, far less than
\* the distance 1/(2 * 10^4 * d) of any non-tie quotient from a tie.
PercentHalfUp(n, d) ==
    LET a  == Abs(n)
        q0 == a \div d
        r0 == a % d
        q1 == (r0 * 10) \div d
        r1 == (r0 * 10) % d
        q2 == (r1 * 10) \div d
        r2 == (r1 * 10) % d
        q3 == (r2 * 10) \div d
        r3 == (r2 * 10) % d
        q4 == (r3 * 10) \div d
        r4 == (r3 * 10) % d
        whole == q0 * 10000 + q1 * 1000 + q2 * 100 + q3 * 10 + q4
        m == IF 2 * r4 >= d THEN whole + 1 ELSE whole
    IN  IF n < 0 THEN -m ELSE m

_calculate_return_on_margin(max_profit, margin_requirement) ==
    IF \/ margin_requirement <= 0
       \/ max_profit >= SentinelMils
       \/ margin_requirement >= SentinelMils
    THEN 0
    ELSE PercentHalfUp(max_profit, margin_requirement)

NoMetrics == [none |-> TRUE]

\* a leg is priced NaN: the Decimal net premium is NaN, and the comparison
\* net_premium >= 0 (in _calculate_margin_requirement at the latest) raises
\* decimal.InvalidOperation
NaNPremium(legs) ==
    \E i \in 1..Len(legs) :
        (IF legs[i].action = "sell" THEN legs[i].contract.bid
                                    ELSE legs[i].contract.ask) = NaN

\* mutant: only an empty legs list is rejected
calculate_strategy_metrics_no_upper_limit(legs) ==
    IF legs = <<>>
    THEN [raised |-> "CalculationError", metrics |-> NoMetrics]
    ELSE IF NaNPremium(legs)
    THEN [raised |-> "InvalidOperation", metrics |-> NoMetrics]
    ELSE LET net_premium == _calculate_net_premium(legs)
             max_profit == _calculate_max_profit(legs, net_premium)
             max_loss == _calculate_max_loss(legs, net_premium)
             breakeven_points == _calculate_breakeven_points(legs, net_premium)
             margin_requirement == _calculate_margin_requirement(max_loss, net_premium)
             return_on_margin == _calculate_return_on_margin(max_profit, margin_requirement)
         IN  [raised |-> "none",
              metrics |-> [net_premium |-> net_premium,
                           max_profit |-> max_profit,
                           max_loss |-> max_loss,
                           breakeven_points |-> breakeven_points,
                           margin_requirement |-> margin_requirement,
                           return_on_margin |-> return_on_margin]]

\* calculate_strategy_metrics: [raised, metrics]
calculate_strategy_metrics(legs) ==
    IF legs = <<>> \/ Len(legs) > 2
    THEN [raised |-> "CalculationError", metrics |-> NoMetrics]
    ELSE IF NaNPremium(legs)
    THEN [raised |-> "InvalidOperation", metrics |-> NoMetrics]
    ELSE LET net_premium == _calculate_net_premium(legs)
             max_profit == _calculate_max_profit(legs, net_premium)
             max_loss == _calculate_max_loss(legs, net_premium)
             breakeven_points == _calculate_breakeven_points(legs, net_premium)
             margin_requirement == _calculate_margin_requirement(max_loss, net_premium)
             return_on_margin == _calculate_return_on_margin(max_profit, margin_requirement)
         IN  [raised |-> "none",
              metrics |-> [net_premium |-> net_premium,
                           max_profit |-> max_profit,
                           max_loss |-> max_loss,
                           breakeven_points |-> breakeven_points,
                           margin_requirement |-> margin_requirement,
                           return_on_margin |-> return_on_margin]]

\* ------------------------------------------------------- payoff_diagram
Max(a, b) == IF a >= b THEN a ELSE b

\* mutant: the intrinsic value of a bought leg ignores the quantity
PositionPayoff_one_contract(leg, stock_price) ==
    LET contract == leg.contract
        strike == contract.strike
        intrinsic_value == IF contract.option_type = "call"
                           THEN Max(0, stock_price - strike)
                           ELSE Max(0, strike - stock_price)
    IN  IF leg.action = "buy"
        THEN TimesContractSize(intrinsic_value) - contract.ask * leg.quantity
        ELSE contract.bid * leg.quantity
               - TimesContractSize(intrinsic_value) * leg.quantity

\* one iteration of the loop of _calculate_payoff_at_price, in mils
PositionPayoff(leg, stock_price) ==
    LET contract == leg.contract
        strike == contract.strike
        intrinsic_value == IF contract.option_type = "call"
                           THEN Max(0, stock_price - strike)
                           ELSE Max(0, strike - stock_price)
        \* intrinsic_value * Decimal('100') * quantity, in mils
        intrinsic_total == TimesContractSize(intrinsic_value) * leg.quantity
    IN  IF leg.action = "buy"
        THEN LET premium_paid == contract.ask * leg.quantity
             IN  intrinsic_total - premium_paid
        ELSE LET premium_received == contract.bid * leg.quantity
             IN  premium_received - intrinsic_total

RECURSIVE TotalPayoff(_, _)
TotalPayoff(legs, stock_price) ==
    IF legs = <<>> THEN 0
    ELSE TotalPayoff(SubSeq(legs, 1, Len(legs) - 1), stock_price)
           + PositionPayoff(legs[Len(legs)], stock_price)

\* total_payoff.quantize(Decimal('0.01')): the default context rounds half even
_calculate_payoff_at_price(legs, stock_price) ==
    RoundHalfEven(TotalPayoff(legs, stock_price), Cent) * Cent

\* ------------------------------------------- float arithmetic of the curve
\* generate_payoff_diagram computes its prices in Python floats (IEEE 754
\* binary64, round to nearest, ties to even).  A non-negative float is kept
\* exactly, as the natural number value * 2^FractionBits, written in
\* NumLimbs digits of base LimbBase, least significant digit first.
LimbBits == 13
LimbBase == 2^LimbBits
NumLimbs == 8
FractionLimbs == 5
FractionBits == FractionLimbs * LimbBits
MantissaBits == 53

BigZero == [i \in 1..NumLimbs |-> 0]

\* 2^n
BigPow2(n) ==
    [i \in 1..NumLimbs |-> IF i = (n \div LimbBits) + 1 THEN 2^(n % LimbBits) ELSE 0]

\* the integer n >= 0, times 2^FractionBits
BigOfInt(n) ==
    [i \in 1..NumLimbs |->
        IF i = FractionLimbs + 1 THEN n % LimbBase
        ELSE IF i = FractionLimbs + 2 THEN (n \div LimbBase) % LimbBase
        ELSE IF i = FractionLimbs + 3 THEN n \div (LimbBase * LimbBase)
        ELSE 0]

\* the integer part of a
IntPart(a) ==
    a[FractionLimbs + 1] + LimbBase * a[FractionLimbs + 2]
        + LimbBase * LimbBase * a[FractionLimbs + 3]

RECURSIVE MulFrom(_, _, _, _)
MulFrom(a, m, i, carry) ==
    IF i > NumLimbs THEN <<>>
    ELSE LET t == a[i] * m + carry
         IN  <<t % LimbBase>> \o MulFrom(a, m, i + 1, t \div LimbBase)

\* a * m for 0 <= m < 2^18
BigMulSmall(a, m) == MulFrom(a, m, 1, 0)

RECURSIVE AddFrom(_, _, _, _)
AddFrom(a, b, i, carry) ==
    IF i > NumLimbs THEN <<>>
    ELSE LET t == a[i] + b[i] + carry
         IN  <<t % LimbBase>> \o AddFrom(a, b, i + 1, t \div LimbBase)

BigAdd(a, b) == AddFrom(a, b, 1, 0)

RECURSIVE SubFrom(_, _, _, _)
SubFrom(a, b, i, borrow) ==
    IF i > NumLimbs THEN <<>>
    ELSE LET t == a[i] - b[i] - borrow
         IN  <<t % LimbBase>> \o SubFrom(a, b, i + 1, IF t < 0 THEN 1 ELSE 0)

\* a - b for a >= b
BigSub(a, b) == SubFrom(a, b, 1, 0)

BigLess(a, b) ==
    \E i \in 1..NumLimbs :
        /\ a[i] < b[i]
        /\ \A j \in (i + 1)..NumLimbs : a[j] = b[j]

\* |a - b|
BigDist(a, b) == IF BigLess(a, b) THEN BigSub(b, a) ELSE BigSub(a, b)

RECURSIVE DivFrom(_, _, _, _)
DivFrom(a, d, i, r) ==
    IF i = 0 THEN [q |-> <<>>, r |-> r]
    ELSE LET cur == r * LimbBase + a[i]
             rest == DivFrom(a, d, i - 1, cur % d)
         IN  [q |-> Append(rest.q, cur \div d), r |-> rest.r]

\* quotient and remainder of a by d, for 0 < d < 2^18
BigDivSmall(a, d) == DivFrom(a, d, NumLimbs, 0)

\* q < 2^bits
FitsBits(q, bits) ==
    \A i \in 1..NumLimbs :
        /\ i > (bits \div LimbBits) + 1 => q[i] = 0
        /\ i = (bits \div LimbBits) + 1 => q[i] < 2^(bits % LimbBits)

\* shift q right until it has MantissaBits bits, a digit at a time while
\* that leaves enough bits and then bit by bit; guard is the last bit
\* dropped, sticky tells whether anything below it was non-zero
RECURSIVE Normalise(_, _, _, _)
Normalise(q, guard, sticky, shifts) ==
    IF FitsBits(q, MantissaBits)
    THEN [q |-> q, guard |-> guard, sticky |-> sticky, shifts |-> shifts]
    ELSE LET s == IF FitsBits(q, MantissaBits + LimbBits - 1) THEN 1 ELSE LimbBits
             h == BigDivSmall(q, 2^s)
         IN  Normalise(h.q, h.r \div 2^(s - 1),
                       sticky \/ guard = 1 \/ h.r % 2^(s - 1) # 0,
                       shifts + s)

RECURSIVE ShiftLeft(_, _)
ShiftLeft(a, n) ==
    IF n = 0 THEN a
    ELSE IF n >= LimbBits - 1
         THEN ShiftLeft(BigMulSmall(a, 2^(LimbBits - 1)), n - (LimbBits - 1))
         ELSE BigMulSmall(a, 2^n)

\* the float nearest to the exact quotient n / d (ties to even), for
\* quotients of at least 2^(MantissaBits - 1 - FractionBits)
FloatRound(n, d) ==
    IF n = BigZero THEN BigZero
    ELSE LET twice == BigDivSmall(BigMulSmall(n, 2), d)
             m == Normalise(twice.q, 0, twice.r # 0, 0)
             up == m.guard = 1 /\ (m.sticky \/ m.q[1] % 2 = 1)
             mantissa == IF up THEN BigAdd(m.q, BigPow2(0)) ELSE m.q
         IN  ShiftLeft(mantissa, m.shifts - 1)

\* the float a price of whole cents denotes
FloatOfCents(cents) == FloatRound(BigOfInt(cents), Dollar \div Cent)

\* x * 0.5 and x * 1.5: both factors are floats exactly
FloatTimesHalf(x) == FloatRound(x, 2)
FloatTimesOneAndHalf(x) == FloatRound(BigMulSmall(x, 3), 2)
\* i * x for a small int i
FloatTimesInt(i, x) == FloatRound(BigMulSmall(x, i), 1)
FloatDivInt(x, n) == FloatRound(x, n)
FloatAdd(x, y) == FloatRound(BigAdd(x, y), 1)
FloatSub(x, y) == FloatRound(BigSub(x, y), 1)

\* share units in a dollar
SharesDollar == Dollar * ShareUnitsPerMil

\* the multiple of a share unit nearest to the float x
NearestShareUnits(x) ==
    IntPart(BigAdd(BigMulSmall(x, SharesDollar), BigPow2(FractionBits - 1)))

\* Decimal(str(stock_price)) of a float: str() prints the shortest decimal
\* that reads back as the same float.  That is the nearest multiple of a
\* share unit when it reads back as x; if not, it is a longer decimal a
\* tiny residue above or below that multiple, on the side where x lies.
Decimal_str(x) ==
    LET units == NearestShareUnits(x)
        back == FloatRound(BigOfInt(units), SharesDollar)
    IN  [units |-> units,
         residue |-> IF back = x THEN 0 ELSE IF BigLess(back, x) THEN 1 ELSE -1]

\* change of the position's payoff per unit of price, at the decimal price d
LegSlope(leg, d) ==
    LET strike == leg.contract.strike
        above == d.units > strike \/ (d.units = strike /\ d.residue > 0)
        below == d.units < strike \/ (d.units = strike /\ d.residue < 0)
        intrinsic == IF leg.contract.option_type = "call"
                     THEN (IF above THEN 1 ELSE 0)
                     ELSE (IF below THEN -1 ELSE 0)
    IN  IF leg.action = "buy" THEN intrinsic * leg.quantity
        ELSE -intrinsic * leg.quantity

RECURSIVE TotalSlope(_, _)
TotalSlope(legs, d) ==
    IF legs = <<>> THEN 0
    ELSE TotalSlope(SubSeq(legs, 1, Len(legs) - 1), d)
           + LegSlope(legs[Len(legs)], d)

\* _calculate_payoff_at_price(legs, stock_price) for a float stock_price:
\* the residue of Decimal(str(stock_price)) moves total_payoff by less than
\* a mil, which decides the quantize only when total_payoff is half a cent
_calculate_payoff_at_float(legs, stock_price) ==
    LET d == Decimal_str(stock_price)
        total_payoff == TotalPayoff(legs, d.units)
        drift == d.residue * TotalSlope(legs, d)
    IN  IF total_payoff % Cent = Cent \div 2 /\ drift # 0
        THEN ((total_payoff \div Cent) + (IF drift > 0 THEN 1 ELSE 0)) * Cent
        ELSE _calculate_payoff_at_price(legs, d.units)

\* points of the curve and steps between them
NumPoints == 51
NumSteps == 50

NoDiagram == [generated |-> FALSE, legs |-> <<>>, current_price |-> BigZero,
              prices |-> <<>>, payoffs |-> <<>>]

\* mutant: the prices stop one step short, range(50)
generate_payoff_diagram_open_range(legs, current_price) ==
    LET min_price == FloatTimesHalf(current_price)
        max_price == FloatTimesOneAndHalf(current_price)
        width == FloatSub(max_price, min_price)
        prices == [i \in 1..NumSteps |->
                      FloatAdd(min_price,
                               FloatDivInt(FloatTimesInt(i - 1, width), NumSteps))]
    IN  [generated |-> TRUE, legs |-> legs, current_price |-> current_price,
         prices |-> prices,
         payoffs |-> [i \in 1..NumSteps |->
                         _calculate_payoff_at_float(legs, prices[i])]]

\* generate_payoff_diagram, up to the two lists handed to ax.plot
generate_payoff_diagram(legs, current_price) ==
    LET min_price == FloatTimesHalf(current_price)
        max_price == FloatTimesOneAndHalf(current_price)
        width == FloatSub(max_price, min_price)
        prices == [i \in 1..NumPoints |->
                      FloatAdd(min_price,
                               FloatDivInt(FloatTimesInt(i - 1, width), NumSteps))]
    IN  [generated |-> TRUE, legs |-> legs, current_price |-> current_price,
         prices |-> prices,
         payoffs |-> [i \in 1..NumPoints |->
                         _calculate_payoff_at_float(legs, prices[i])]]

\* ------------------------------------------------------- trading_journal
\* mutant: the strikes themselves do not count as between the strikes
calculate_final_pnl_open_interval(legs, trade_metrics, closing_price) ==
    IF trade_metrics.net_premium > 0
    THEN IF Len(legs) = 2
         THEN LET lower == SortedStrikes(legs)[1]
                  upper == SortedStrikes(legs)[2]
              IN  IF lower < closing_price /\ closing_price < upper
                  THEN -trade_metrics.max_loss
                  ELSE trade_metrics.max_profit
         ELSE trade_metrics.net_premium
    ELSE IF trade_metrics.breakeven_points # <<>>
         THEN IF closing_price > trade_metrics.breakeven_points[1]
              THEN trade_metrics.max_profit
              ELSE trade_metrics.max_loss
         ELSE trade_metrics.net_premium

\* TradingJournal.calculate_final_pnl, in mils
calculate_final_pnl(legs, trade_metrics, closing_price) ==
    IF trade_metrics.net_premium > 0
    THEN IF Len(legs) = 2
         THEN LET lower == SortedStrikes(legs)[1]
                  upper == SortedStrikes(legs)[2]
              IN  IF lower <= closing_price /\ closing_price <= upper
                  THEN -trade_metrics.max_loss
                  ELSE trade_metrics.max_profit
         ELSE trade_metrics.net_premium
    ELSE IF trade_metrics.breakeven_points # <<>>
         THEN IF closing_price > trade_metrics.breakeven_points[1]
              THEN trade_metrics.max_profit
              ELSE trade_metrics.max_loss
         ELSE trade_metrics.net_premium

\* _strategy_to_dict, as json.dumps writes it: only the fields the model
\* keeps (symbol, expiration and created_at are strings that read back as
\* written); the numbers are written with repr and read back as the same
\* floats
_strategy_to_dict(legs) ==
    [legs |-> [i \in 1..Len(legs) |->
                  [action |-> legs[i].action, quantity |-> legs[i].quantity,
                   contract |-> [strike |-> legs[i].contract.strike,
                                 option_type |-> legs[i].contract.option_type,
                                 bid |-> legs[i].contract.bid,
                                 ask |-> legs[i].contract.ask]]]]

\* mutant: the quantity is not read back, and OptionLeg defaults it to 1
_dict_to_strategy_default_quantity(data) ==
    [i \in 1..Len(data.legs) |->
        [action |-> data.legs[i].action, quantity |-> 1,
         contract |-> [strike |-> data.legs[i].contract.strike,
                       option_type |-> data.legs[i].contract.option_type,
                       bid |-> data.legs[i].contract.bid,
                       ask |-> data.legs[i].contract.ask]]]

\* _dict_to_strategy: the legs of the Strategy it constructs
_dict_to_strategy(data) ==
    [i \in 1..Len(data.legs) |->
        [action |-> data.legs[i].action, quantity |-> data.legs[i].quantity,
         contract |-> [strike |-> data.legs[i].contract.strike,
                       option_type |-> data.legs[i].contract.option_type,
                       bid |-> data.legs[i].contract.bid,
                       ask |-> data.legs[i].contract.ask]]]

\* metrics.__dict__
metrics_dict(m) ==
    [net_premium |-> m.net_premium, max_profit |-> m.max_profit,
     max_loss |-> m.max_loss, breakeven_points |-> m.breakeven_points,
     margin_requirement |-> m.margin_requirement,
     return_on_margin |-> m.return_on_margin]

\* _dict_to_metrics: StrategyMetrics(**data)
_dict_to_metrics(data) ==
    [net_premium |-> data.net_premium, max_profit |-> data.max_profit,
     max_loss |-> data.max_loss, breakeven_points |-> data.breakeven_points,
     margin_requirement |-> data.margin_requirement,
     return_on_margin |-> data.return_on_margin]

\* _row_to_trade without the entry date
_row_to_trade(row) ==
    [id |-> row.id, strategy |-> _dict_to_strategy(row.strategy_data),
     metrics |-> _dict_to_metrics(row.metrics_data), status |-> row.status,
     closing_price |-> row.closing_price, final_pnl |-> row.final_pnl]

\* rows the journal may hold
MaxTrades == 2

\* ---------------------------------------------------------------- state
VARIABLES
    strategy,     \* legs of the Strategy object under computation
    metrics,      \* StrategyMetrics returned by the last calculator call
    metrics_of,   \* the legs that call received
    raised,       \* exception raised by the last calculator call
    payoff,       \* result of the last _calculate_payoff_at_price call
    payoff_of,    \* [legs, stock_price] that call received
    diagram,      \* prices and payoffs of the last payoff diagram
    constructed,  \* the last constructor call: its arguments and outcome
    trades,       \* rows of the journal's trades table, by id
    journal_raised, \* exception raised by the last journal call
    listed,       \* what the last journal call returned, if a list
    journal_call, \* the last journal call: its name and arguments
    current_strategy, \* cli.py's global: <<>> for None, else <<Strategy>>
    current_metrics,  \* cli.py's global: <<>> for None, else <<StrategyMetrics>>
    cli,          \* the last CLI command: what it did and reported
    closers       \* the close_trade calls in progress, one per connection

vars == <<strategy, metrics, metrics_of, raised, payoff, payoff_of, diagram,
         constructed, trades, journal_raised, listed, journal_call,
         current_strategy, current_metrics, cli, closers>>

\* the variables of the command line and of concurrent journal connections
cli_vars == <<current_strategy, current_metrics, cli>>

NoCli == [command |-> "none", symbol |-> "", exception |-> "none", echo |-> "none",
          requests |-> 0, leg_prompts |-> 0]

\* connections that may close trades at the same time
Connections == {1, 2}

Idle == [pc |-> "idle", trade_id |-> 0, closing_price |-> 0, row |-> <<>>,
         raised |-> "none"]

NoJournalCall == [op |-> "none", trade_id |-> 0, closing_price |-> 0]

NotConstructed == [kind |-> "none", raised |-> "none", value |-> <<>>]

NoCall == [called |-> FALSE, legs |-> <<>>, stock_price |-> 0]

Init ==
    /\ strategy \in Strategy
    /\ metrics = NoMetrics
    /\ metrics_of = NoCall
    /\ raised = "none"
    /\ payoff = 0
    /\ payoff_of = NoCall
    /\ diagram = NoDiagram
    /\ constructed = NotConstructed
    /\ trades = <<>>
    /\ journal_raised = "none"
    /\ listed = <<>>
    /\ journal_call = NoJournalCall
    /\ current_strategy = <<>>
    /\ current_metrics = <<>>
    /\ cli = NoCli
    /\ closers = [c \in Connections |-> Idle]

\* mutant: the strikes are ordered with legs.sort(), in place, instead of
\* sorted(), and the reordered Strategy stays with the caller
CalculateStrategyMetrics_sorts_in_place ==
    /\ LET r == calculate_strategy_metrics(strategy)
       IN  /\ metrics' = r.metrics
           /\ raised' = r.raised
    /\ metrics_of' = [called |-> TRUE, legs |-> strategy, stock_price |-> 0]
    /\ strategy' = IF /\ Len(strategy) = 2
                      /\ strategy[1].contract.strike > strategy[2].contract.strike
                   THEN <<strategy[2], strategy[1]>>
                   ELSE strategy
    /\ UNCHANGED <<cli_vars, closers>>
    /\ UNCHANGED <<payoff, payoff_of, diagram,
                     constructed, trades, journal_raised, listed,
                     journal_call>>

\* calculator.calculate_strategy_metrics(strategy)
CalculateStrategyMetrics ==
    /\ LET r == calculate_strategy_metrics(strategy)
       IN  /\ metrics' = r.metrics
           /\ raised' = r.raised
    /\ metrics_of' = [called |-> TRUE, legs |-> strategy, stock_price |-> 0]
    /\ UNCHANGED <<cli_vars, closers>>
    /\ UNCHANGED <<strategy, payoff, payoff_of, diagram,
                     constructed, trades, journal_raised, listed,
                     journal_call>>

\* self._calculate_payoff_at_price(strategy.legs, price)
CalculatePayoffAtPrice ==
    \E stock_price \in StockPrices :
        /\ payoff' = _calculate_payoff_at_price(strategy, stock_price)
        /\ payoff_of' = [called |-> TRUE, legs |-> strategy,
                        stock_price |-> stock_price]
        /\ UNCHANGED <<cli_vars, closers>>
        /\ UNCHANGED <<strategy, metrics, metrics_of, raised, diagram,
                     constructed, trades, journal_raised, listed,
                     journal_call>>

\* strategy.legs.extend([...]) on a constructed Strategy, before it is
\* handed to the calculator: no validation runs
ExtendLegs ==
    /\ ~metrics_of.called /\ ~payoff_of.called
    /\ Len(strategy) >= 1
    /\ Len(strategy) < MaxLegs
    /\ strategy' = Append(strategy, strategy[1])
    /\ UNCHANGED <<cli_vars, closers>>
    /\ UNCHANGED <<metrics, metrics_of, raised, payoff, payoff_of, diagram,
                     constructed, trades, journal_raised, listed,
                     journal_call>>

\* strategy.legs.clear() on a constructed Strategy, before it is handed to
\* the calculator: no validation runs
ClearLegs ==
    /\ ~metrics_of.called /\ ~payoff_of.called
    /\ Len(strategy) >= 1
    /\ strategy' = <<>>
    /\ UNCHANGED <<cli_vars, closers>>
    /\ UNCHANGED <<metrics, metrics_of, raised, payoff, payoff_of, diagram,
                     constructed, trades, journal_raised, listed,
                     journal_call>>

Next ==
    \/ CalculateStrategyMetrics
    \/ CalculatePayoffAtPrice
    \/ ExtendLegs
    \/ ClearLegs

Spec == Init /\ [][Next]_vars

\* the calculator and the payoff function on strikes of five decimals
InitFine ==
    /\ strategy \in FineStrategy
    /\ metrics = NoMetrics
    /\ metrics_of = NoCall
    /\ raised = "none"
    /\ payoff = 0
    /\ payoff_of = NoCall
    /\ diagram = NoDiagram
    /\ constructed = NotConstructed
    /\ trades = <<>>
    /\ journal_raised = "none"
    /\ listed = <<>>
    /\ journal_call = NoJournalCall
    /\ current_strategy = <<>>
    /\ current_metrics = <<>>
    /\ cli = NoCli
    /\ closers = [c \in Connections |-> Idle]

NextFine ==
    \/ CalculateStrategyMetrics
    \/ CalculatePayoffAtPrice

SpecFine == InitFine /\ [][NextFine]_vars

\* reference prices of the diagram, in cents
CurrentPrices == {15000, 6299, 12345}

\* a few one- and two-leg strategies of one contract per leg
CurveLeg ==
    {l \in OptionLeg :
        /\ l.quantity = 1
        /\ l.contract.strike \in {14500000, 15000500}
        /\ \/ /\ l.action = "buy" /\ l.contract.option_type = "call"
              /\ l.contract.ask \in {5400, 8777}
           \/ /\ l.action = "buy" /\ l.contract.option_type = "put"
              /\ l.contract.ask = 5400 /\ l.contract.strike = 15000500
           \/ /\ l.action = "sell" /\ l.contract.option_type = "call"
              /\ l.contract.bid = 8555}

CurveStrategy ==
    {<<l>> : l \in CurveLeg} \cup {<<l1, l2>> : l1 \in CurveLeg, l2 \in CurveLeg}

\* calculator.generate_payoff_diagram(strategy, current_price)
GeneratePayoffDiagram ==
    \E cents \in CurrentPrices :
        /\ diagram' = generate_payoff_diagram(strategy, FloatOfCents(cents))
        /\ UNCHANGED <<cli_vars, closers>>
        /\ UNCHANGED <<strategy, metrics, metrics_of, raised, payoff, payoff_of,
                     constructed, trades, journal_raised, listed,
                     journal_call>>

InitCurve ==
    /\ strategy \in CurveStrategy
    /\ metrics = NoMetrics
    /\ metrics_of = NoCall
    /\ raised = "none"
    /\ payoff = 0
    /\ payoff_of = NoCall
    /\ diagram = NoDiagram
    /\ constructed = NotConstructed
    /\ trades = <<>>
    /\ journal_raised = "none"
    /\ listed = <<>>
    /\ journal_call = NoJournalCall
    /\ current_strategy = <<>>
    /\ current_metrics = <<>>
    /\ cli = NoCli
    /\ closers = [c \in Connections |-> Idle]

NextCurve == GeneratePayoffDiagram

SpecCurve == InitCurve /\ [][NextCurve]_vars

\* ----------------------------------------------------------- construction
\* arguments a caller may hand to the constructors
RawStrikes == {NaN, -14500000, 0, 14500000, 15000500}
RawPrices == {NaN, -5200, 0, 5200, 5400}
RawOptionTypes == {"call", "put", "straddle"}
RawActions == {"buy", "sell", "hold"}
RawQuantities == (-1)..MaxQuantity

\* a dataclass constructor: store the fields, then run __post_init__
Construct(kind, value, valid) ==
    [kind |-> kind, raised |-> IF valid THEN "none" ELSE "ValueError",
     value |-> value]

\* OptionContract(symbol, strike, expiration, option_type, bid, ask)
ConstructOptionContract ==
    \E strike \in RawStrikes, option_type \in RawOptionTypes,
       bid \in RawPrices, ask \in RawPrices :
        LET c == [strike |-> strike, option_type |-> option_type,
                  bid |-> bid, ask |-> ask]
        IN  /\ constructed' =
                   Construct("OptionContract", c, OptionContract_post_init(c))
            /\ UNCHANGED <<cli_vars, closers>>
            /\ UNCHANGED <<strategy, metrics, metrics_of, raised, payoff,
                           payoff_of, diagram, trades, journal_raised, listed,
                     journal_call>>

\* OptionLeg(action, contract, quantity) on the contract just constructed
ConstructOptionLeg ==
    /\ constructed.kind = "OptionContract" /\ constructed.raised = "none"
    /\ \E action \in RawActions, quantity \in RawQuantities :
           LET l == [action |-> action, quantity |-> quantity,
                     contract |-> constructed.value]
           IN  constructed' = Construct("OptionLeg", l, OptionLeg_post_init(l))
    /\ UNCHANGED <<cli_vars, closers>>
    /\ UNCHANGED <<strategy, metrics, metrics_of, raised, payoff, payoff_of,
                   diagram, trades, journal_raised, listed,
                     journal_call>>

\* Strategy(legs, underlying_symbol, created_at) on copies of the leg just
\* constructed
ConstructStrategy ==
    /\ constructed.kind = "OptionLeg" /\ constructed.raised = "none"
    /\ \E n \in 0..MaxLegs :
           LET legs == [i \in 1..n |-> constructed.value]
           IN  constructed' =
                   Construct("Strategy", legs, Strategy_post_init(legs))
    /\ UNCHANGED <<cli_vars, closers>>
    /\ UNCHANGED <<strategy, metrics, metrics_of, raised, payoff, payoff_of,
                   diagram, trades, journal_raised, listed,
                     journal_call>>

\* nothing is constructed yet, and no Strategy is under computation
InitConstruct ==
    /\ strategy = <<>>
    /\ metrics = NoMetrics
    /\ metrics_of = NoCall
    /\ raised = "none"
    /\ payoff = 0
    /\ payoff_of = NoCall
    /\ diagram = NoDiagram
    /\ constructed = NotConstructed
    /\ trades = <<>>
    /\ journal_raised = "none"
    /\ listed = <<>>
    /\ journal_call = NoJournalCall
    /\ current_strategy = <<>>
    /\ current_metrics = <<>>
    /\ cli = NoCli
    /\ closers = [c \in Connections |-> Idle]

NextConstruct ==
    \/ ConstructOptionContract
    \/ ConstructOptionLeg
    \/ ConstructStrategy

SpecConstruct == InitConstruct /\ [][NextConstruct]_vars

\* ---------------------------------------------------------------- journal
\* mutant: every row is inserted with id 1
SaveTrade_id_one ==
    /\ metrics_of.called /\ raised = "none" /\ metrics_of.legs = strategy
    /\ Len(trades) < MaxTrades
    /\ trades' = Append(trades,
                        [id |-> 1,
                         strategy_data |-> _strategy_to_dict(strategy),
                         metrics_data |-> metrics_dict(metrics),
                         status |-> "open",
                         closing_price |-> <<>>, final_pnl |-> <<>>])
    /\ journal_raised' = "none"
    /\ listed' = <<>>
    /\ UNCHANGED <<cli_vars, closers>>
    /\ UNCHANGED <<strategy, metrics, metrics_of, raised, payoff, payoff_of,
                   diagram, constructed>>
    /\ journal_call' = [op |-> "save_trade", trade_id |-> 0, closing_price |-> 0]

\* journal.save_trade(strategy, metrics) with the metrics the calculator
\* returned for the strategy; AUTOINCREMENT numbers the rows 1, 2, ...
SaveTrade ==
    /\ metrics_of.called /\ raised = "none" /\ metrics_of.legs = strategy
    /\ Len(trades) < MaxTrades
    /\ trades' = Append(trades,
                        [id |-> Len(trades) + 1,
                         strategy_data |-> _strategy_to_dict(strategy),
                         metrics_data |-> metrics_dict(metrics),
                         status |-> "open",
                         closing_price |-> <<>>, final_pnl |-> <<>>])
    /\ journal_raised' = "none"
    /\ listed' = <<>>
    /\ UNCHANGED <<cli_vars, closers>>
    /\ UNCHANGED <<strategy, metrics, metrics_of, raised, payoff, payoff_of,
                   diagram, constructed>>
    /\ journal_call' = [op |-> "save_trade", trade_id |-> 0, closing_price |-> 0]

\* mutant: the status of the row is not looked at
CloseTrade_recloses ==
    /\ \E trade_id \in 1..(MaxTrades + 1), closing_price \in StockPrices :
         /\ journal_call' = [op |-> "close_trade", trade_id |-> trade_id,
                              closing_price |-> closing_price]
         /\ IF trade_id > Len(trades)
           THEN /\ journal_raised' = "TradingJournalError"
                /\ UNCHANGED trades
           ELSE IF ~Strategy_post_init(_dict_to_strategy(trades[trade_id].strategy_data))
           THEN /\ journal_raised' = "ValueError"
                /\ UNCHANGED trades
           ELSE LET row == trades[trade_id]
                    final_pnl == calculate_final_pnl(
                                     _dict_to_strategy(row.strategy_data),
                                     _dict_to_metrics(row.metrics_data),
                                     closing_price)
                IN  /\ trades' = [trades EXCEPT ![trade_id] =
                                     [row EXCEPT !.status = "closed",
                                                 !.closing_price = <<closing_price>>,
                                                 !.final_pnl = <<final_pnl>>]]
                    /\ journal_raised' = "none"
    /\ listed' = <<>>
    /\ UNCHANGED <<cli_vars, closers>>
    /\ UNCHANGED <<strategy, metrics, metrics_of, raised, payoff, payoff_of,
                   diagram, constructed>>

\* mutant: the UPDATE has no WHERE clause
CloseTrade_updates_all ==
    /\ \E trade_id \in 1..(MaxTrades + 1), closing_price \in StockPrices :
         /\ journal_call' = [op |-> "close_trade", trade_id |-> trade_id,
                              closing_price |-> closing_price]
         /\ IF trade_id > Len(trades) \/ trades[trade_id].status = "closed"
           THEN /\ journal_raised' = "TradingJournalError"
                /\ UNCHANGED trades
           ELSE LET row == trades[trade_id]
                    final_pnl == calculate_final_pnl(
                                     _dict_to_strategy(row.strategy_data),
                                     _dict_to_metrics(row.metrics_data),
                                     closing_price)
                IN  /\ trades' = [i \in 1..Len(trades) |->
                                     [trades[i] EXCEPT
                                         !.status = "closed",
                                         !.closing_price = <<closing_price>>,
                                         !.final_pnl = <<final_pnl>>]]
                    /\ journal_raised' = "none"
    /\ listed' = <<>>
    /\ UNCHANGED <<cli_vars, closers>>
    /\ UNCHANGED <<strategy, metrics, metrics_of, raised, payoff, payoff_of,
                   diagram, constructed>>

\* journal.close_trade(trade_id, closing_price)
CloseTrade ==
    /\ \E trade_id \in 1..(MaxTrades + 1), closing_price \in StockPrices :
         /\ journal_call' = [op |-> "close_trade", trade_id |-> trade_id,
                              closing_price |-> closing_price]
         /\ IF trade_id > Len(trades) \/ trades[trade_id].status = "closed"
           THEN /\ journal_raised' = "TradingJournalError"
                /\ UNCHANGED trades
           ELSE IF ~Strategy_post_init(_dict_to_strategy(trades[trade_id].strategy_data))
           THEN /\ journal_raised' = "ValueError"
                /\ UNCHANGED trades
           ELSE LET row == trades[trade_id]
                    final_pnl == calculate_final_pnl(
                                     _dict_to_strategy(row.strategy_data),
                                     _dict_to_metrics(row.metrics_data),
                                     closing_price)
                IN  /\ trades' = [trades EXCEPT ![trade_id] =
                                     [row EXCEPT !.status = "closed",
                                                 !.closing_price = <<closing_price>>,
                                                 !.final_pnl = <<final_pnl>>]]
                    /\ journal_raised' = "none"
    /\ listed' = <<>>
    /\ UNCHANGED <<cli_vars, closers>>
    /\ UNCHANGED <<strategy, metrics, metrics_of, raised, payoff, payoff_of,
                   diagram, constructed>>

\* journal.get_all_trades(): the rows by id, latest first (entry dates do
\* not decrease as ids grow)
GetAllTrades ==
    /\ listed' = [i \in 1..Len(trades) |->
                     _row_to_trade(trades[Len(trades) + 1 - i])]
    /\ journal_raised' = "none"
    /\ UNCHANGED <<cli_vars, closers>>
    /\ UNCHANGED <<strategy, metrics, metrics_of, raised, payoff, payoff_of,
                   diagram, constructed, trades>>
    /\ journal_call' = [op |-> "get_all_trades", trade_id |-> 0, closing_price |-> 0]

\* strategies the journal is exercised with: calls of one contract at the
\* two lower strikes, quoted 5.20/5.40 or 8.765/8.765
JournalStrategy ==
    {legs \in Strategy :
        \A i \in 1..Len(legs) :
            /\ legs[i].quantity = 1
            /\ legs[i].contract.option_type = "call"
            /\ legs[i].contract.strike \in {14500000, 15000500}
            /\ legs[i].contract.ask \in {5400, 8765}}

InitJournal ==
    /\ strategy \in JournalStrategy
    /\ metrics = NoMetrics
    /\ metrics_of = NoCall
    /\ raised = "none"
    /\ payoff = 0
    /\ payoff_of = NoCall
    /\ diagram = NoDiagram
    /\ constructed = NotConstructed
    /\ trades = <<>>
    /\ journal_raised = "none"
    /\ listed = <<>>
    /\ journal_call = NoJournalCall
    /\ current_strategy = <<>>
    /\ current_metrics = <<>>
    /\ cli = NoCli
    /\ closers = [c \in Connections |-> Idle]

NextJournal ==
    \/ CalculateStrategyMetrics
    \/ SaveTrade
    \/ CloseTrade
    \/ GetAllTrades

SpecJournal == InitJournal /\ [][NextJournal]_vars

\* ----------------------------------------------- concurrent close_trade
\* close_trade runs on a connection of its own.  Its SELECT is executed
\* outside a transaction (sqlite3 opens one before the UPDATE only), so the
\* call is two steps: lines 49-56 read the row and decide, lines 57-61 write
\* and commit.
\* lines 49-52: SELECT the row; raise when it is missing or closed
close_trade_select(c) ==
    /\ closers[c].pc = "idle"
    /\ \E trade_id \in 1..(Len(trades) + 1), closing_price \in StockPrices :
           closers' = [closers EXCEPT ![c] =
               IF trade_id > Len(trades) \/ trades[trade_id].status = "closed"
               THEN [pc |-> "done", trade_id |-> trade_id,
                     closing_price |-> closing_price, row |-> <<>>,
                     raised |-> "TradingJournalError"]
               ELSE [pc |-> "selected", trade_id |-> trade_id,
                     closing_price |-> closing_price,
                     row |-> <<trades[trade_id]>>, raised |-> "none"]]
    /\ UNCHANGED <<strategy, metrics, metrics_of, raised, payoff, payoff_of,
                   diagram, constructed, trades, journal_raised, listed,
                   journal_call, cli_vars>>

\* lines 54-61: final_pnl from the row that was read, UPDATE ... WHERE id,
\* commit on leaving the with block
close_trade_update(c) ==
    /\ closers[c].pc = "selected"
    /\ LET call == closers[c]
           row == call.row[1]
           final_pnl == calculate_final_pnl(
                            _dict_to_strategy(row.strategy_data),
                            _dict_to_metrics(row.metrics_data),
                            call.closing_price)
       IN  /\ trades' = [trades EXCEPT ![call.trade_id] =
                            [@ EXCEPT !.status = "closed",
                                      !.closing_price = <<call.closing_price>>,
                                      !.final_pnl = <<final_pnl>>]]
           /\ closers' = [closers EXCEPT ![c].pc = "done"]
    /\ UNCHANGED <<strategy, metrics, metrics_of, raised, payoff, payoff_of,
                   diagram, constructed, journal_raised, listed,
                   journal_call, cli_vars>>

\* the journal holds one open trade, saved with the calculator's metrics
InitConcurrent ==
    /\ strategy \in JournalStrategy
    /\ metrics = calculate_strategy_metrics(strategy).metrics
    /\ metrics_of = [called |-> TRUE, legs |-> strategy, stock_price |-> 0]
    /\ raised = "none"
    /\ payoff = 0
    /\ payoff_of = NoCall
    /\ diagram = NoDiagram
    /\ constructed = NotConstructed
    /\ trades = <<[id |-> 1,
                   strategy_data |-> _strategy_to_dict(strategy),
                   metrics_data |-> metrics_dict(metrics),
                   status |-> "open",
                   closing_price |-> <<>>, final_pnl |-> <<>>]>>
    /\ journal_raised = "none"
    /\ listed = <<>>
    /\ journal_call = [op |-> "save_trade", trade_id |-> 0, closing_price |-> 0]
    /\ current_strategy = <<>>
    /\ current_metrics = <<>>
    /\ cli = NoCli
    /\ closers = [c \in Connections |-> Idle]

NextConcurrent ==
    \E c \in Connections :
        \/ close_trade_select(c)
        \/ close_trade_update(c)

SpecConcurrent == InitConcurrent /\ [][NextConcurrent]_vars

\* ------------------------------------------------------------------- cli
\* config.get_supported_symbols() with SUPPORTED_SYMBOLS unset
get_supported_symbols == {"NVDA", "TSLA", "HOOD", "CRCL"}

\* symbols typed at the command line
TypedSymbols == {"nvda", "NVDA", "INVALID"}

\* str.upper() on the typed symbols
upper(symbol) == IF symbol = "nvda" THEN "NVDA" ELSE symbol

\* what a market-data command reports: MarketDataService() raises
\* ConfigError without an API key, before any request; with a key one
\* request is made and answered with data or with an error
MarketDataCommand(command, symbol, api_key, response) ==
    [command |-> command, symbol |-> symbol, exception |-> "none",
     echo |-> IF ~api_key THEN "ConfigError"
              ELSE IF response = "data" THEN "data" ELSE "MarketDataError",
     requests |-> IF api_key THEN 1 ELSE 0, leg_prompts |-> 0]

Responses == {"data", "Error Message"}

\* cli.get_quote(symbol)
get_quote ==
    /\ \E symbol \in TypedSymbols, api_key \in BOOLEAN, response \in Responses :
           cli' = MarketDataCommand("get-quote", upper(symbol), api_key,
                                    response)
    /\ UNCHANGED <<strategy, metrics, metrics_of, raised, payoff, payoff_of,
                   diagram, constructed, trades, journal_raised, listed,
                   journal_call, current_strategy, current_metrics, closers>>

\* cli.get_options(symbol, date): strptime raises ValueError on a date that
\* is not YYYY-MM-DD, before the service is constructed
get_options ==
    /\ \E symbol \in TypedSymbols, date_ok \in BOOLEAN, api_key \in BOOLEAN,
          response \in Responses :
           cli' = IF date_ok
                  THEN MarketDataCommand("get-options", upper(symbol),
                                         api_key, response)
                  ELSE [command |-> "get-options", symbol |-> upper(symbol),
                        exception |-> "none", echo |-> "ValueError",
                        requests |-> 0, leg_prompts |-> 0]
    /\ UNCHANGED <<strategy, metrics, metrics_of, raised, payoff, payoff_of,
                   diagram, constructed, trades, journal_raised, listed,
                   journal_call, current_strategy, current_metrics, closers>>

\* a leg as typed at the prompts of build-strategy; OptionLeg's quantity
\* defaults to 1
TypedLeg(action, strike, bid, ask) ==
    [action |-> action, quantity |-> 1,
     contract |-> [strike |-> strike, option_type |-> "call",
                   bid |-> bid, ask |-> ask]]

\* the answers to the leg prompts: a bought call, a credit call spread, a
\* bought call with ask 'nan', and a leg whose ask is below its bid
TypedLegs ==
    {<<TypedLeg("buy", 14500000, 5200, 5400)>>,
     <<TypedLeg("sell", 14500000, 5200, 5400),
       TypedLeg("buy", 15000500, 4, 5)>>,
     <<TypedLeg("buy", 14500000, 5200, NaN)>>,
     <<TypedLeg("buy", 14500000, 5400, 5200),
       TypedLeg("buy", 15000500, 4, 5)>>}

\* legs prompted until a contract is rejected
LegPrompts(legs) ==
    IF \E i \in 1..Len(legs) : ~OptionContract_post_init(legs[i].contract)
    THEN CHOOSE i \in 1..Len(legs) :
             /\ ~OptionContract_post_init(legs[i].contract)
             /\ \A j \in 1..(i - 1) : OptionContract_post_init(legs[j].contract)
    ELSE Len(legs)

\* cli.build_strategy(): the prompts, then line 69 assigns current_strategy
\* and line 70 current_metrics; an exception leaves the command where it is
\* raised
build_strategy ==
    /\ \E symbol \in TypedSymbols, date_ok \in BOOLEAN, legs \in TypedLegs :
           LET report(exception, echo, leg_prompts) ==
                   [command |-> "build-strategy", symbol |-> upper(symbol),
                    exception |-> exception, echo |-> echo,
                    requests |-> 0, leg_prompts |-> leg_prompts]
               result == calculate_strategy_metrics(legs)
           IN  IF ~date_ok
               THEN /\ cli' = report("none", "Invalid date", 0)
                    /\ UNCHANGED <<current_strategy, current_metrics>>
               ELSE IF \/ \E i \in 1..Len(legs) :
                             \/ ~OptionContract_post_init(legs[i].contract)
                             \/ ~OptionLeg_post_init(legs[i])
                       \/ ~Strategy_post_init(legs)
               THEN /\ cli' = report("ValueError", "none", LegPrompts(legs))
                    /\ UNCHANGED <<current_strategy, current_metrics>>
               ELSE /\ current_strategy' =
                           <<[legs |-> legs,
                              underlying_symbol |-> upper(symbol)]>>
                    /\ IF result.raised # "none"
                       THEN /\ cli' = report(result.raised, "none", Len(legs))
                            /\ UNCHANGED current_metrics
                       ELSE /\ cli' = report("none", "Built", Len(legs))
                            /\ current_metrics' = <<result.metrics>>
    /\ UNCHANGED <<strategy, metrics, metrics_of, raised, payoff, payoff_of,
                   diagram, constructed, trades, journal_raised, listed,
                   journal_call, closers>>

\* cli.analyze_strategy(): AIAnalyzer() raises ConfigError without an API
\* key; the prompt it formats reads the attributes of current_metrics
analyze_strategy ==
    /\ \E api_key \in BOOLEAN, response \in Responses :
           LET report(exception, echo) ==
                   [command |-> "analyze-strategy", symbol |-> "",
                    exception |-> exception, echo |-> echo,
                    requests |-> 0, leg_prompts |-> 0]
           IN  cli' = IF current_strategy = <<>>
                      THEN report("none", "Build strategy first")
                      ELSE IF ~api_key THEN report("none", "ConfigError")
                      ELSE IF current_metrics = <<>>
                      THEN report("AttributeError", "none")
                      ELSE IF response = "data"
                      THEN report("none", "analysis")
                      ELSE report("none", "AIAnalysisError")
    /\ UNCHANGED <<strategy, metrics, metrics_of, raised, payoff, payoff_of,
                   diagram, constructed, trades, journal_raised, listed,
                   journal_call, current_strategy, current_metrics, closers>>

\* cli.save_trade(): journal.save_trade(current_strategy, current_metrics);
\* metrics.__dict__ raises AttributeError on None before the INSERT
save_trade ==
    /\ (current_strategy # <<>> /\ current_metrics # <<>>)
           => Len(trades) < MaxTrades
    /\ LET report(exception, echo) ==
               [command |-> "save-trade", symbol |-> "",
                exception |-> exception, echo |-> echo,
                requests |-> 0, leg_prompts |-> 0]
       IN  IF current_strategy = <<>>
           THEN /\ cli' = report("none", "Build strategy first")
                /\ UNCHANGED trades
           ELSE IF current_metrics = <<>>
           THEN /\ cli' = report("AttributeError", "none")
                /\ UNCHANGED trades
           ELSE /\ cli' = report("none", "Saved")
                /\ trades' = Append(trades,
                       [id |-> Len(trades) + 1,
                        strategy_data |->
                            _strategy_to_dict(current_strategy[1].legs),
                        metrics_data |-> metrics_dict(current_metrics[1]),
                        status |-> "open",
                        closing_price |-> <<>>, final_pnl |-> <<>>])
    /\ UNCHANGED <<strategy, metrics, metrics_of, raised, payoff, payoff_of,
                   diagram, constructed, journal_raised, listed,
                   journal_call, current_strategy, current_metrics, closers>>

\* a session starts with the module's globals None and an empty journal
InitCli ==
    /\ strategy = <<>>
    /\ metrics = NoMetrics
    /\ metrics_of = NoCall
    /\ raised = "none"
    /\ payoff = 0
    /\ payoff_of = NoCall
    /\ diagram = NoDiagram
    /\ constructed = NotConstructed
    /\ trades = <<>>
    /\ journal_raised = "none"
    /\ listed = <<>>
    /\ journal_call = NoJournalCall
    /\ current_strategy = <<>>
    /\ current_metrics = <<>>
    /\ cli = NoCli
    /\ closers = [c \in Connections |-> Idle]

NextCli ==
    \/ get_quote
    \/ get_options
    \/ build_strategy
    \/ analyze_strategy
    \/ save_trade

SpecCli == InitCli /\ [][NextCli]_vars

\* ------------------------------------------------------------ properties
\* r is x rounded to a multiple of unit, ties away from zero (round-half-up)
IsRoundedHalfUp(r, x, unit) ==
    /\ r % unit = 0
    /\ 2 * Abs(r - x) <= unit
    /\ (2 * Abs(r - x) = unit => Abs(r) > Abs(x))

\* r is x rounded to a nearest multiple of unit
IsRoundedToNearest(r, x, unit) ==
    /\ r % unit = 0
    /\ 2 * Abs(r - x) <= unit

RECURSIVE SeqSum(_)
SeqSum(s) == IF s = <<>> THEN 0 ELSE Head(s) + SeqSum(Tail(s))

Min(a, b) == IF a <= b THEN a ELSE b

\* the last calculator call returned metrics
Returned == metrics_of.called /\ raised = "none"
CalcLegs == metrics_of.legs
LowerStrike == Min(CalcLegs[1].contract.strike, CalcLegs[2].contract.strike)
UpperStrike == Max(CalcLegs[1].contract.strike, CalcLegs[2].contract.strike)
\* (upper strike - lower strike) x 100 in mils: a difference of d share
\* units (1/100 mil per share) over 100 shares is d mils
ClaimSpreadValue == UpperStrike - LowerStrike

\* C1: for a two-leg strategy, with spread_value = (upper strike - lower
\* strike) x 100: a net credit (net_premium >= 0) has max_profit =
\* net_premium and max_loss = spread_value - net_premium; a net debit has
\* max_profit = spread_value + net_premium and max_loss = |net_premium|.
C1_SpreadProfitLoss ==
    (Returned /\ Len(CalcLegs) = 2) =>
        IF metrics.net_premium >= 0
        THEN /\ metrics.max_profit = metrics.net_premium
             /\ metrics.max_loss = ClaimSpreadValue - metrics.net_premium
        ELSE /\ metrics.max_profit = ClaimSpreadValue + metrics.net_premium
             /\ metrics.max_loss = Abs(metrics.net_premium)

\* a debit spread over two distinct strikes was computed
C1_Witness ==
    /\ Returned /\ Len(CalcLegs) = 2
    /\ ClaimSpreadValue > 0
    /\ metrics.net_premium < 0
    /\ metrics.max_profit > 0

\* signed premium of one leg, in mils: +bid x quantity for a sell leg,
\* -ask x quantity for a buy leg
ClaimLegPremium(leg) ==
    IF leg.action = "sell" THEN leg.contract.bid * leg.quantity
                           ELSE -(leg.contract.ask * leg.quantity)

ClaimPremiumSum ==
    SeqSum([i \in 1..Len(CalcLegs) |-> ClaimLegPremium(CalcLegs[i])])

\* C2: net_premium is the sum over the legs of +bid x quantity (sell) and
\* -ask x quantity (buy), rounded once, at the end, half-up to cents; a
\* positive net_premium is a net credit and a negative one a net debit.
C2_NetPremium ==
    (Returned /\ Len(CalcLegs) \in 1..2) =>
        /\ IsRoundedHalfUp(metrics.net_premium, ClaimPremiumSum, Cent)
        /\ (metrics.net_premium > 0 => ClaimPremiumSum > 0)
        /\ (metrics.net_premium < 0 => ClaimPremiumSum < 0)
        /\ (ClaimPremiumSum > 0 => metrics.net_premium >= 0)
        /\ (ClaimPremiumSum < 0 => metrics.net_premium <= 0)

\* two legs of quantity 2 whose exact sum is not a whole number of cents
C2_Witness ==
    /\ Returned /\ Len(CalcLegs) = 2
    /\ CalcLegs[1].quantity = 2 /\ CalcLegs[2].quantity = 2
    /\ CalcLegs[1].action # CalcLegs[2].action
    /\ ClaimPremiumSum % Cent # 0
    /\ metrics.net_premium # 0

\* C3: margin_requirement is max_loss for a credit (net_premium >= 0) and
\* |net_premium| for a debit (net_premium < 0).
C3_MarginRequirement ==
    Returned =>
        IF metrics.net_premium >= 0
        THEN metrics.margin_requirement = metrics.max_loss
        ELSE metrics.margin_requirement = Abs(metrics.net_premium)

\* a two-leg position with net_premium exactly 0 and a positive max_loss
C3_Witness ==
    /\ Returned /\ Len(CalcLegs) = 2
    /\ metrics.net_premium = 0
    /\ metrics.max_loss > 0
    /\ metrics.margin_requirement = metrics.max_loss

\* largest quotient max_profit / margin_requirement whose percentage, in
\* hundredths of a percent, is still a 32-bit integer
MaxRatio == 200000

\* C4: return_on_margin is 0 when margin_requirement <= 0 or when
\* max_profit or margin_requirement equals the sentinel 99999; in every
\* other case it is (max_profit / margin_requirement) x 100 rounded
\* half-up to cents.  (Of a percentage beyond MaxRatio x 100 the formula
\* only requires that it is not 0.)
C4_ReturnOnMargin ==
    Returned =>
        IF \/ metrics.margin_requirement <= 0
           \/ metrics.max_profit = SentinelMils
           \/ metrics.margin_requirement = SentinelMils
        THEN metrics.return_on_margin = 0
        ELSE IF Abs(metrics.max_profit) \div metrics.margin_requirement >= MaxRatio
             THEN metrics.return_on_margin # 0
             ELSE metrics.return_on_margin =
                    PercentHalfUp(metrics.max_profit, metrics.margin_requirement)

\* C5: a two-leg strategy has exactly one breakeven: lower_strike +
\* net_premium / 100 if at least one leg is a call, upper_strike -
\* net_premium / 100 if both legs are puts, rounded half-up to cents.
C5_SpreadBreakeven ==
    (Returned /\ Len(CalcLegs) = 2) =>
        \* net_premium mils / 100 = net_premium share units
        LET premium_per_share == metrics.net_premium
            any_call == \E i \in 1..2 : CalcLegs[i].contract.option_type = "call"
            exact == IF any_call THEN LowerStrike + premium_per_share
                                 ELSE UpperStrike - premium_per_share
        IN  /\ Len(metrics.breakeven_points) = 1
            /\ IsRoundedHalfUp(metrics.breakeven_points[1], exact, SharesCent)

\* a call and a put over distinct strikes, whose exact breakeven is not a
\* whole number of cents
C5_Witness ==
    /\ Returned /\ Len(CalcLegs) = 2
    /\ CalcLegs[1].contract.option_type # CalcLegs[2].contract.option_type
    /\ ClaimSpreadValue > 0
    /\ metrics.net_premium # 0
    /\ (LowerStrike + metrics.net_premium) % SharesCent # 0
    /\ metrics.breakeven_points[1] # LowerStrike
\* the last calculator call received one leg of quantity 1
SingleLeg(action, option_type) ==
    /\ Returned /\ Len(CalcLegs) = 1
    /\ CalcLegs[1].action = action
    /\ CalcLegs[1].contract.option_type = option_type
    /\ CalcLegs[1].quantity = 1

\* C6 (as stated): a single bought call with strike K, ask A, quantity 1
\* has net_premium = -A, max_loss = A, max_profit = 99999,
\* breakeven_points = [K + A], margin_requirement = A, return_on_margin = 0.
C6_LongCallExact ==
    SingleLeg("buy", "call") =>
        LET K == CalcLegs[1].contract.strike
            A == CalcLegs[1].contract.ask
        IN  /\ metrics.net_premium = -A
            /\ metrics.max_loss = A
            /\ metrics.max_profit = SentinelMils
            /\ metrics.breakeven_points = <<K + A * ShareUnitsPerMil>>
            /\ metrics.margin_requirement = A
            /\ metrics.return_on_margin = 0

\* C6 (amended): with A' = A rounded half-up to cents, a single bought call
\* of quantity 1 has net_premium = -A', max_loss = A', max_profit = 99999,
\* breakeven_points = [K + A' rounded half-up to cents],
\* margin_requirement = A' and return_on_margin = 0.
C6_LongCall ==
    SingleLeg("buy", "call") =>
        LET K == CalcLegs[1].contract.strike
            A == CalcLegs[1].contract.ask
            A_cents == -metrics.net_premium
        IN  /\ IsRoundedHalfUp(A_cents, A, Cent)
            /\ metrics.max_loss = A_cents
            /\ metrics.max_profit = SentinelMils
            /\ Len(metrics.breakeven_points) = 1
            /\ IsRoundedHalfUp(metrics.breakeven_points[1],
                               K + A_cents * ShareUnitsPerMil, SharesCent)
            /\ metrics.margin_requirement = A_cents
            /\ metrics.return_on_margin = 0

\* a bought call whose ask has three decimals, on a strike of three decimals
C6_Witness ==
    /\ SingleLeg("buy", "call")
    /\ CalcLegs[1].contract.ask % Cent # 0
    /\ CalcLegs[1].contract.strike % SharesCent # 0
    /\ metrics.net_premium < 0

\* C7 (as stated): a single sold call with strike K, bid B, quantity 1 has
\* net_premium = B, max_profit = B, max_loss = 99999, breakeven_points =
\* [K + B], margin_requirement = 99999, return_on_margin = 0.
C7_ShortCallExact ==
    SingleLeg("sell", "call") =>
        LET K == CalcLegs[1].contract.strike
            B == CalcLegs[1].contract.bid
        IN  /\ metrics.net_premium = B
            /\ metrics.max_profit = B
            /\ metrics.max_loss = SentinelMils
            /\ metrics.breakeven_points = <<K + B * ShareUnitsPerMil>>
            /\ metrics.margin_requirement = SentinelMils
            /\ metrics.return_on_margin = 0

\* C7 (amended): with B' = B rounded half-up to cents, a single sold call
\* of quantity 1 has net_premium = B', max_profit = B', max_loss = 99999,
\* breakeven_points = [K + B' rounded half-up to cents],
\* margin_requirement = 99999 and return_on_margin = 0.
C7_ShortCall ==
    SingleLeg("sell", "call") =>
        LET K == CalcLegs[1].contract.strike
            B == CalcLegs[1].contract.bid
            B_cents == metrics.net_premium
        IN  /\ IsRoundedHalfUp(B_cents, B, Cent)
            /\ metrics.max_profit = B_cents
            /\ metrics.max_loss = SentinelMils
            /\ Len(metrics.breakeven_points) = 1
            /\ IsRoundedHalfUp(metrics.breakeven_points[1],
                               K + B_cents * ShareUnitsPerMil, SharesCent)
            /\ metrics.margin_requirement = SentinelMils
            /\ metrics.return_on_margin = 0

\* a sold call whose bid is a tie between two cents
C7_Witness ==
    /\ SingleLeg("sell", "call")
    /\ 2 * (CalcLegs[1].contract.bid % Cent) = Cent
    /\ metrics.net_premium > CalcLegs[1].contract.bid

\* C8: a single bought put is treated like a bought call: max_profit is
\* the sentinel 99999 and max_loss = |net_premium|.
C8_LongPutUnbounded ==
    (/\ Returned /\ Len(CalcLegs) = 1
     /\ CalcLegs[1].action = "buy"
     /\ CalcLegs[1].contract.option_type = "put") =>
        /\ metrics.max_profit = SentinelMils
        /\ metrics.max_loss = Abs(metrics.net_premium)

ClaimLegPayoff(leg, price) ==
    LET intrinsic == IF leg.contract.option_type = "call"
                     THEN Max(0, price - leg.contract.strike)
                     ELSE Max(0, leg.contract.strike - price)
    IN  IF leg.action = "buy"
        THEN intrinsic * leg.quantity - leg.contract.ask * leg.quantity
        ELSE leg.contract.bid * leg.quantity - intrinsic * leg.quantity

\* C10: the payoff at a settlement price is the sum over the legs of the
\* leg payoffs (intrinsic = max(0, price - strike) for a call, max(0,
\* strike - price) for a put), rounded to cents.
C10_Payoff ==
    payoff_of.called =>
        LET legs == payoff_of.legs
            total == SeqSum([i \in 1..Len(legs) |->
                                ClaimLegPayoff(legs[i], payoff_of.stock_price)])
        IN  IsRoundedToNearest(payoff, total, Cent)

\* a bought and a sold leg of quantity 2, both in the money, with a sum
\* that is not a whole number of cents
C10_Witness ==
    /\ payoff_of.called /\ Len(payoff_of.legs) = 2
    /\ LET legs == payoff_of.legs
           price == payoff_of.stock_price
       IN  /\ legs[1].action = "buy" /\ legs[2].action = "sell"
           /\ legs[1].quantity = 2 /\ legs[2].quantity = 2
           /\ legs[1].contract.option_type = "call"
           /\ legs[2].contract.option_type = "put"
           /\ price > legs[1].contract.strike
           /\ price < legs[2].contract.strike
           /\ (ClaimLegPayoff(legs[1], price)
                 + ClaimLegPayoff(legs[2], price)) % Cent # 0
\* C11: for a two-leg strategy, the payoff at a price below the lower
\* strike, and at a price above the upper strike, is max_profit or
\* -max_loss of the metrics computed for the same strategy.
C11_PayoffBeyondStrikes ==
    (/\ Returned /\ Len(CalcLegs) = 2
     /\ payoff_of.called /\ payoff_of.legs = CalcLegs
     /\ \/ payoff_of.stock_price < LowerStrike
        \/ payoff_of.stock_price > UpperStrike) =>
        \/ payoff = metrics.max_profit
        \/ payoff = -metrics.max_loss

\* C12: the breakeven returned by the calculator is a price at which the
\* payoff of the strategy is exactly zero.
C12_BreakevenPayoffZero ==
    Returned =>
        _calculate_payoff_at_price(CalcLegs, metrics.breakeven_points[1]) = 0
\* C13: whatever the number of decimals of bid, ask and strike, every
\* field of the returned StrategyMetrics is a whole number of cents, and
\* net_premium is the exact sum rounded half-up.
C13_WholeCents ==
    Returned =>
        /\ IsRoundedHalfUp(metrics.net_premium, ClaimPremiumSum, Cent)
        /\ metrics.max_profit % Cent = 0
        /\ metrics.max_loss % Cent = 0
        /\ \A i \in 1..Len(metrics.breakeven_points) :
               metrics.breakeven_points[i] % SharesCent = 0
        /\ metrics.margin_requirement % Cent = 0
        /\ metrics.return_on_margin \in Int
C15_LegOrder ==
    /\ (Returned /\ Len(CalcLegs) = 2) =>
           calculate_strategy_metrics(<<CalcLegs[2], CalcLegs[1]>>).metrics
             = metrics
    /\ (payoff_of.called /\ Len(payoff_of.legs) = 2) =>
           _calculate_payoff_at_price(<<payoff_of.legs[2], payoff_of.legs[1]>>,
                                      payoff_of.stock_price) = payoff

\* metrics and an in-the-money payoff of a call and a put that differ in
\* strike, action, quantity and quote
C15_Witness ==
    /\ Returned /\ Len(CalcLegs) = 2
    /\ payoff_of.called /\ payoff_of.legs = CalcLegs
    /\ CalcLegs[1].contract.strike > CalcLegs[2].contract.strike
    /\ CalcLegs[1].contract.option_type = "put"
    /\ CalcLegs[2].contract.option_type = "call"
    /\ CalcLegs[1].action # CalcLegs[2].action
    /\ CalcLegs[1].quantity # CalcLegs[2].quantity
    /\ CalcLegs[1].contract.bid # CalcLegs[2].contract.bid
    /\ payoff_of.stock_price > CalcLegs[2].contract.strike
    /\ payoff_of.stock_price < CalcLegs[1].contract.strike

\* the tolerance of the curve's float arithmetic: 2^-40 of a dollar
CurveTolerance == BigPow2(FractionBits - 40)

\* a and b differ by at most tol
BigNear(a, b, tol) == ~BigLess(tol, BigDist(a, b))

\* what holds of every curve to the last bit: the number of points, their
\* order, the first price and the payoffs
CurveShape ==
    /\ Len(diagram.prices) = NumPoints
    /\ Len(diagram.payoffs) = NumPoints
    /\ \A i \in 1..(NumPoints - 1) :
           BigLess(diagram.prices[i], diagram.prices[i + 1])
    /\ BigMulSmall(diagram.prices[1], 2) = diagram.current_price
    /\ \A i \in 1..NumPoints :
           diagram.payoffs[i] =
               _calculate_payoff_at_float(diagram.legs, diagram.prices[i])

ValidContract(c) ==
    /\ FloatLE(c.bid, c.ask)
    /\ FloatLE(0, c.bid)
    /\ FloatLT(0, c.strike)

\* C17: construction fails when strike <= 0, option_type is not call or put,
\* bid < 0 or ask < bid (OptionContract), when action is not buy or sell or
\* quantity <= 0 (OptionLeg), with no legs or more than two (Strategy); hence
\* every value constructed has ask >= bid >= 0, strike > 0, quantity >= 1
\* and one or two legs
C17_Construction ==
    LET v == constructed.value
        failed == constructed.raised = "ValueError"
    IN  /\ constructed.kind = "OptionContract" =>
               /\ (\/ FloatLE(v.strike, 0)
                   \/ v.option_type \notin {"call", "put"}
                   \/ FloatLT(v.bid, 0)
                   \/ FloatLT(v.ask, v.bid)) => failed
               /\ ~failed => ValidContract(v)
        /\ constructed.kind = "OptionLeg" =>
               /\ (v.action \notin {"buy", "sell"} \/ v.quantity <= 0) => failed
               /\ ~failed => (v.quantity >= 1 /\ ValidContract(v.contract))
        /\ constructed.kind = "Strategy" =>
               /\ (Len(v) = 0 \/ Len(v) > 2) => failed
               /\ ~failed => (1 <= Len(v) /\ Len(v) <= 2)

\* the closed rows of the journal
ClosedTrades == {i \in 1..Len(trades) : trades[i].status = "closed"}
TradeLower(t) ==
    Min(_dict_to_strategy(t.strategy_data)[1].contract.strike, _dict_to_strategy(t.strategy_data)[2].contract.strike)
TradeUpper(t) ==
    Max(_dict_to_strategy(t.strategy_data)[1].contract.strike, _dict_to_strategy(t.strategy_data)[2].contract.strike)

\* C18: for a recorded two-leg position with non-zero net premium, a credit
\* position settles at the max-loss outcome (-max_loss) when the closing
\* price lies between the two strikes, bounds included, and at max_profit
\* otherwise; a debit position settles at max_profit when the closing price
\* is strictly above the recorded breakeven and at max_loss otherwise
C18_Settlement ==
    \A i \in ClosedTrades :
        LET t == trades[i]
            price == t.closing_price[1]
            final_pnl == t.final_pnl[1]
        IN  (Len(_dict_to_strategy(t.strategy_data)) = 2 /\ _dict_to_metrics(t.metrics_data).net_premium # 0) =>
                IF _dict_to_metrics(t.metrics_data).net_premium > 0
                THEN IF TradeLower(t) <= price /\ price <= TradeUpper(t)
                     THEN final_pnl = -_dict_to_metrics(t.metrics_data).max_loss
                     ELSE final_pnl = _dict_to_metrics(t.metrics_data).max_profit
                ELSE IF price > _dict_to_metrics(t.metrics_data).breakeven_points[1]
                     THEN final_pnl = _dict_to_metrics(t.metrics_data).max_profit
                     ELSE final_pnl = _dict_to_metrics(t.metrics_data).max_loss

\* a credit spread of two different strikes closed exactly at a strike
C18_Witness ==
    \E i \in ClosedTrades :
        LET t == trades[i]
        IN  /\ Len(_dict_to_strategy(t.strategy_data)) = 2
            /\ _dict_to_metrics(t.metrics_data).net_premium > 0
            /\ TradeLower(t) < TradeUpper(t)
            /\ t.closing_price[1] = TradeLower(t)
            /\ t.final_pnl[1] = -_dict_to_metrics(t.metrics_data).max_loss
            /\ _dict_to_metrics(t.metrics_data).max_profit # -_dict_to_metrics(t.metrics_data).max_loss

\* C19: for every two-leg strategy with the calculator's metrics and every
\* closing price at or beyond the outer strikes, calculate_final_pnl equals
\* the payoff of the strategy at that price
C19_SettlementIsPayoff ==
    \A i \in ClosedTrades :
        LET t == trades[i]
            price == t.closing_price[1]
        IN  (/\ Len(_dict_to_strategy(t.strategy_data)) = 2
             /\ price <= TradeLower(t) \/ price >= TradeUpper(t)) =>
                t.final_pnl[1] = _calculate_payoff_at_price(_dict_to_strategy(t.strategy_data), price)

\* C20: the final_pnl that close_trade records is never the sentinel 99999
\* nor its negative
C20_SentinelNotMoney ==
    \A i \in ClosedTrades :
        trades[i].final_pnl[1] \notin {SentinelMils, -SentinelMils}

\* C21: close_trade on an id that is not in the journal, or on a trade that
\* is already closed, raises TradingJournalError and leaves every stored
\* record unchanged; on an open trade it succeeds and sets status closed,
\* the given closing_price and the computed final_pnl for that trade only
C21_CloseTrade ==
    [][CloseTrade =>
          LET id == journal_call'.trade_id
              price == journal_call'.closing_price
          IN  IF id \notin 1..Len(trades) \/ trades[id].status = "closed"
              THEN /\ journal_raised' = "TradingJournalError"
                   /\ trades' = trades
              ELSE /\ journal_raised' = "none"
                   /\ Len(trades') = Len(trades)
                   /\ trades'[id].status = "closed"
                   /\ trades'[id].closing_price = <<price>>
                   /\ trades'[id].final_pnl =
                          <<calculate_final_pnl(
                                _dict_to_strategy(trades[id].strategy_data),
                                _dict_to_metrics(trades[id].metrics_data),
                                price)>>
                   /\ trades'[id].id = trades[id].id
                   /\ trades'[id].strategy_data = trades[id].strategy_data
                   /\ trades'[id].metrics_data = trades[id].metrics_data
                   /\ \A j \in 1..Len(trades) :
                          j # id => trades'[j] = trades[j]]_vars

\* the second of two trades was closed and the first one is still open
C21_Witness ==
    /\ journal_call.op = "close_trade" /\ journal_raised = "none"
    /\ Len(trades) = 2
    /\ journal_call.trade_id = 2
    /\ trades[1].status = "open"
    /\ trades[2].status = "closed"

\* C22: save_trade adds exactly one record, with a new positive id, status
\* open, closing_price and final_pnl unset, holding the strategy and the
\* metrics it was given, and leaves the other records unchanged;
\* get_all_trades returns every stored trade exactly once, with the
\* strategy, metrics and status stored for it
C22_SaveAndList ==
    [][/\ SaveTrade =>
            LET n == Len(trades)
                new == _row_to_trade(trades'[n + 1])
            IN  /\ Len(trades') = n + 1
                /\ \A j \in 1..n : trades'[j] = trades[j]
                /\ new.id > 0
                /\ \A j \in 1..n : trades[j].id # new.id
                /\ new.status = "open"
                /\ new.closing_price = <<>> /\ new.final_pnl = <<>>
                /\ new.strategy = strategy
                /\ new.metrics = metrics
       /\ GetAllTrades =>
            /\ Len(listed') = Len(trades)
            /\ \A i \in 1..Len(trades) :
                   \E j \in 1..Len(listed') :
                      /\ listed'[j] = _row_to_trade(trades[i])
                      /\ \A k \in 1..Len(listed') :
                             listed'[k].id = trades[i].id => k = j
            /\ trades' = trades]_vars

\* two trades were saved, one was closed, and both were listed
C22_Witness ==
    /\ journal_call.op = "get_all_trades"
    /\ Len(trades) = 2 /\ Len(listed) = 2
    /\ listed[1].id = 2 /\ listed[2].id = 1
    /\ listed[1].strategy = strategy /\ listed[1].metrics = metrics
    /\ listed[2].status = "closed" /\ listed[1].status = "open"

\* C23: get-quote, get-options and build-strategy reject a symbol that is not
\* in the supported list with an 'Unsupported symbol' failure, before any
\* market-data request is made or any leg is prompted, and leave the current
\* strategy and metrics unchanged
C23_UnsupportedSymbol ==
    [][(/\ cli'.command \in {"get-quote", "get-options", "build-strategy"}
        /\ cli' # cli
        /\ cli'.symbol \notin get_supported_symbols)
          => /\ "Unsupported symbol" \in {cli'.exception, cli'.echo}
             /\ cli'.requests = 0
             /\ cli'.leg_prompts = 0
             /\ UNCHANGED <<current_strategy, current_metrics>>]_vars

\* C24: before any build-strategy has succeeded (current_metrics is assigned
\* by a successful build only, and never reset) analyze-strategy and
\* save-trade report 'Build strategy first' and add no record; afterwards
\* save-trade stores one record holding the current strategy and the metrics
\* the calculator computes for that strategy
C24_BuildFirst ==
    [][(analyze_strategy \/ save_trade) =>
          IF current_metrics = <<>>
          THEN /\ cli'.echo = "Build strategy first"
               /\ cli'.exception = "none"
               /\ trades' = trades
          ELSE save_trade =>
                 LET new == _row_to_trade(trades'[Len(trades')])
                     result == calculate_strategy_metrics(new.strategy)
                 IN  /\ Len(trades') = Len(trades) + 1
                     /\ new.strategy = current_strategy[1].legs
                     /\ result.raised = "none"
                     /\ new.metrics = result.metrics]_vars

\* C25: for every strategy the calculator returns metrics for, two legs with
\* equal or close strikes and any quantities included, max_profit >= 0,
\* max_loss >= 0 and margin_requirement >= 0
C25_NonNegative ==
    Returned =>
        /\ metrics.max_profit >= 0
        /\ metrics.max_loss >= 0
        /\ metrics.margin_requirement >= 0

\* calculate_final_pnl took the max-loss outcome for the closed trade t: the
\* closing price between the strikes of a two-leg credit position, or not
\* above the breakeven of a debit position
LosingOutcome(t) ==
    LET m == _dict_to_metrics(t.metrics_data)
        price == t.closing_price[1]
    IN  IF m.net_premium > 0
        THEN /\ Len(_dict_to_strategy(t.strategy_data)) = 2
             /\ TradeLower(t) <= price /\ price <= TradeUpper(t)
        ELSE /\ m.breakeven_points # <<>>
             /\ ~(price > m.breakeven_points[1])

\* C26: whenever calculate_final_pnl selects the losing outcome, the final
\* P&L recorded is the negative of max_loss, so at most 0 for the positive
\* max_loss of a debit as of a credit position
C26_LossIsNegative ==
    \A i \in ClosedTrades :
        LET t == trades[i]
            m == _dict_to_metrics(t.metrics_data)
        IN  (LosingOutcome(t) /\ m.max_loss >= 0) =>
                /\ t.final_pnl[1] = -m.max_loss
                /\ t.final_pnl[1] <= 0

\* C27: for a single leg of quantity 1 quoted with three decimals, the payoff
\* at a price where the option has no intrinsic value equals the net_premium
\* the calculator returned for the same legs (both rounded to cents)
C27_PayoffIsPremium ==
    (/\ Returned /\ payoff_of.called /\ payoff_of.legs = CalcLegs
     /\ Len(CalcLegs) = 1 /\ CalcLegs[1].quantity = 1
     /\ IF CalcLegs[1].contract.option_type = "call"
        THEN payoff_of.stock_price <= CalcLegs[1].contract.strike
        ELSE payoff_of.stock_price >= CalcLegs[1].contract.strike)
        => payoff = metrics.net_premium

\* a row is open with closing_price and final_pnl NULL, or closed with both
\* set
OpenOrClosed(row) ==
    \/ row.status = "open" /\ row.closing_price = <<>> /\ row.final_pnl = <<>>
    \/ row.status = "closed" /\ Len(row.closing_price) = 1
                             /\ Len(row.final_pnl) = 1

\* C28: every trade of the journal is open with closing_price and final_pnl
\* unset or closed with both set, and no save_trade, close_trade or
\* get_all_trades call changes a closed trade
C28_ClosedIsTerminal ==
    [][/\ \A i \in 1..Len(trades) : OpenOrClosed(trades[i])
       /\ \A i \in 1..Len(trades') : OpenOrClosed(trades'[i])
       /\ \A i \in ClosedTrades :
              /\ i <= Len(trades')
              /\ trades'[i] = trades[i]]_vars

\* trade 1 is closed, trade 2 was saved after that and is open, and a second
\* close_trade on trade 1 has just been refused
C28_Witness ==
    /\ Len(trades) = 2
    /\ trades[1].status = "closed" /\ trades[2].status = "open"
    /\ journal_call.op = "close_trade" /\ journal_call.trade_id = 1
    /\ journal_raised = "TradingJournalError"
    /\ journal_call.closing_price # trades[1].closing_price[1]

\* the close_trade calls on trade 1 that have returned without raising
ClosedBy ==
    {c \in Connections : /\ closers[c].pc = "done"
                         /\ closers[c].trade_id = 1
                         /\ closers[c].raised = "none"}

\* C29: when two concurrent close_trade calls for the same open trade have
\* both finished, exactly one has succeeded, the other has raised
\* TradingJournalError, and the stored closing_price and final_pnl are those
\* of the successful call
C29_OneCloseSucceeds ==
    (\A c \in Connections : closers[c].pc = "done" /\ closers[c].trade_id = 1)
        => \E c \in Connections :
              /\ ClosedBy = {c}
              /\ \A d \in Connections \ {c} :
                     closers[d].raised = "TradingJournalError"
              /\ trades[1].status = "closed"
              /\ trades[1].closing_price = <<closers[c].closing_price>>
              /\ trades[1].final_pnl =
                     <<calculate_final_pnl(
                           _dict_to_strategy(trades[1].strategy_data),
                           _dict_to_metrics(trades[1].metrics_data),
                           closers[c].closing_price)>>

\* C30: the journal treats a position as credit when net_premium >= 0, as
\* the calculator does: a closed two-leg trade whose net_premium is exactly
\* 0 is settled by the credit rule, -max_loss for a closing price between
\* the strikes (bounds included) and max_profit otherwise
C30_ZeroPremiumIsCredit ==
    \A i \in ClosedTrades :
        LET t == trades[i]
            m == _dict_to_metrics(t.metrics_data)
            price == t.closing_price[1]
        IN  (Len(_dict_to_strategy(t.strategy_data)) = 2 /\ m.net_premium = 0)
                => t.final_pnl[1] =
                       IF TradeLower(t) <= price /\ price <= TradeUpper(t)
                       THEN -m.max_loss ELSE m.max_profit

====
